---- MODULE Spec2Model ----
(***************************************************************************)
(* Model of the kafka-hwsw demo: the routing producer                      *)
(* (cmd/producer/main.go) and the routing consumer (cmd/consumer/main.go). *)
(* One behaviour is one run of one of the two processes; the cluster and   *)
(* the client library are the nondeterministic environment.                *)
(***************************************************************************)
EXTENDS Integers, Sequences, FiniteSets, TLC

\* ------------------------------------------------------------ bounds ----
MaxCount == 5          \* largest MESSAGE_COUNT explored
NumPartitions == 2     \* partitions of the topic
MaxMsgs == 2           \* messages the cluster delivers to the consumer in a run
MaxSessions == 2       \* consumer-group sessions the library grants in a run
MaxGen == 7            \* largest count passed to generateUserEvents on its own
MaxClock == 2          \* seconds the wall clock may advance while it is observed
MaxEnvLen == 2         \* longest value of an environment variable explored

Partitions == 0..(NumPartitions - 1)

\* ------------------------------------------------- program constants ----
users == <<"user-123", "user-456", "user-789">>
eventTypes == <<"page_view", "purchase", "login", "logout", "search", "add_to_cart">>
Users == {users[i] : i \in 1..Len(users)}
\* keys of the messages the cluster delivers to the consumer
MessageKeys == {users[1], users[2]}

VARIABLES
    program,         \* which binary this run is: "producer" or "consumer"
    pc,              \* position of main
    exitCode,        \* -1 while running, else the process exit status
    exitVia,         \* the statement through which main left
    closed,          \* Close() has been executed
    ctxDone,         \* ctx.Done() is closed
    sigChan,         \* number of signals buffered in sigChan (capacity 1)
    listenerDone,    \* the signal goroutine has passed <-sigChan and cancel()
    summaryLog,      \* arguments of the summary routine's calls, in order
    \* producer
    messageCount,    \* MESSAGE_COUNT as parsed
    messageInterval, \* MESSAGE_INTERVAL_MS as parsed
    events,          \* generateUserEvents(messageCount)
    partitionMap,    \* the producer's distribution record
    count,           \* loop counter of main
    tickReady,       \* a tick is buffered in ticker.C (capacity 1)
    ticksTaken,      \* ticks received by the main loop
    attempts,        \* SendMessage calls issued: event index, ctx state at issue
    results,         \* outcome of each completed SendMessage call
    topicLog,        \* the cluster's log: key and partition of each message it accepted
    \* consumer
    maxMessages,     \* MAX_MESSAGES as parsed
    sessions,        \* calls of the library's Consume made so far
    libErr,          \* the last library Consume call returned an error
    sessCancelled,   \* the library cancelled the session context
    claimState,      \* per partition: "none", "running" (at the select),
                     \* "marking" (a message in hand, recorded), "returned"
    claimMessage,    \* ConsumeClaim's local message
    claimPartitionMap,  \* ConsumeClaim's local partitionMap
    claimMessageCount,  \* ConsumeClaim's local messageCount
    summaryShown,    \* ConsumeClaim's local summaryShown
    marked,          \* offsets the running claim has passed to session.MarkMessage
    nextOffset,      \* next offset the cluster delivers per partition
    received,        \* messages received over the whole run
    claimExit,       \* per partition: the select case the claim of the
                     \* latest session returned through
    \* functions exercised on their own
    genCount,        \* generateUserEvents: the argument count
    genI,            \* generateUserEvents: the loop variable i
    genEvents,       \* generateUserEvents: the slice events built so far
    genCalls,        \* generateUserEvents: the results returned by the calls made
    now,             \* the wall clock, in seconds
    sumRecord,       \* summary routine: the map passed in
    sumOut,          \* summary routine: the lines logged by each call made
    envKey,          \* getEnvAsInt: the variable looked up
    envSet,          \* getEnvAsInt: the variable is present in the environment
    envValue,        \* getEnvAsInt: its value, a string of characters
    envResult        \* getEnvAsInt: the value returned

cvars == <<maxMessages, sessions, libErr, sessCancelled, claimState,
           claimMessage, claimPartitionMap, claimMessageCount, summaryShown, marked,
           nextOffset, received, claimExit>>
pvars == <<messageCount, messageInterval, events, partitionMap, count,
           tickReady, ticksTaken, attempts, results, topicLog>>
svars == <<ctxDone, sigChan, listenerDone>>
mvars == <<program, pc, exitCode, exitVia, closed, summaryLog>>
gvars == <<genCount, genI, genEvents, genCalls, now>>
sumvars == <<sumRecord, sumOut>>
envvars == <<envKey, envSet, envValue, envResult>>
fvars == <<gvars, sumvars, envvars>>
vars == <<mvars, svars, pvars, cvars, fvars>>

\* ----------------------------------------------------------- helpers ----
Last(s) == s[Len(s)]
Max(a, b) == IF a >= b THEN a ELSE b
Min(a, b) == IF a <= b THEN a ELSE b

EmptyRecord == [u \in Users |-> <<>>]          \* make(map[string][]int32)
RecordLen(m) == Cardinality({u \in Users : m[u] # <<>>})   \* len(map)
RECURSIVE SumLens(_, _)
SumLens(m, S) ==
    IF S = {} THEN 0
    ELSE LET u == CHOOSE x \in S : TRUE IN Len(m[u]) + SumLens(m, S \ {u})
RecordTotal(m) == SumLens(m, Users)
\* variant that records the position in the list where the partition belongs
RecordAppendOffset(m, key, partition) == [m EXCEPT ![key] = Append(@, Len(@))]

\* variant that replaces the list of the key instead of extending it
RecordAppendOverwrite(m, key, partition) == [m EXCEPT ![key] = <<partition>>]

\* partitionMap[key] = append(partitionMap[key], partition)
RecordAppend(m, key, partition) == [m EXCEPT ![key] = Append(@, partition)]

\* variant that starts the user cycle one position late
UserAtShifted(i) == users[((i + 1) % Len(users)) + 1]

\* userID := users[i%len(users)]
UserAt(i) == users[(i % Len(users)) + 1]

\* eventType := eventTypes[i%len(eventTypes)]
EventTypeAt(i) == eventTypes[(i % Len(eventTypes)) + 1]

\* the UserEvent literal of iteration i, built when time.Now() returns t:
\* Timestamp: time.Now().Add(time.Duration(i) * time.Second)
GenEvent(i, t) ==
    [Index |-> i, UserID |-> UserAt(i), EventType |-> EventTypeAt(i),
     Timestamp |-> t + i]

\* generateUserEvents: one event per i in 0..count-1, cycling both lists
generateUserEvents(n) ==
    [j \in 1..Max(n, 0) |->
        [Index |-> j - 1,
         UserID |-> users[((j - 1) % Len(users)) + 1],
         EventType |-> eventTypes[((j - 1) % Len(eventTypes)) + 1]]]

\* ------------------------------------------------------------- Init ----
\* the nil *sarama.ConsumerMessage
NoMessage == [Key |-> "", Partition |-> -1, Offset |-> -1]

\* state of main before its first statement
MainStart ==
    /\ pc = "start"
    /\ exitCode = -1
    /\ exitVia = "none"
    /\ closed = FALSE
    /\ ctxDone = FALSE
    /\ sigChan = 0
    /\ listenerDone = FALSE
    /\ summaryLog = <<>>
    /\ events = <<>>
    /\ partitionMap = EmptyRecord
    /\ count = 0
    /\ tickReady = FALSE
    /\ ticksTaken = 0
    /\ attempts = <<>>
    /\ results = <<>>
    /\ topicLog = <<>>
    /\ sessions = 0
    /\ libErr = FALSE
    /\ sessCancelled = FALSE
    /\ claimState = [p \in Partitions |-> "none"]
    /\ claimPartitionMap = [p \in Partitions |-> EmptyRecord]
    /\ claimMessageCount = [p \in Partitions |-> 0]
    /\ claimMessage = [p \in Partitions |-> NoMessage]
    /\ summaryShown = [p \in Partitions |-> FALSE]
    /\ marked = [p \in Partitions |-> <<>>]
    /\ nextOffset = [p \in Partitions |-> 0]
    /\ received = 0
    /\ claimExit = [p \in Partitions |-> "none"]

\* no function is exercised on its own
FunctionsIdle ==
    /\ genCount = 0
    /\ genI = 0
    /\ genEvents = <<>>
    /\ genCalls = <<>>
    /\ now = 0
    /\ sumRecord = EmptyRecord
    /\ sumOut = <<>>
    /\ envKey = "MESSAGE_COUNT"
    /\ envSet = FALSE
    /\ envValue = <<>>
    /\ envResult = 0

Init ==
    /\ program \in {"producer", "consumer"}
    /\ MainStart
    /\ messageCount \in IF program = "producer" THEN (-1)..MaxCount ELSE {0}
    /\ messageInterval \in IF program = "producer" THEN {0, 500} ELSE {500}
    /\ maxMessages \in IF program = "consumer" THEN {0, 1} ELSE {0}
    /\ FunctionsIdle

\* --------------------------------------------- signal handling (both) ----
\* signal.Notify delivers SIGINT/SIGTERM into sigChan without blocking; a
\* signal that arrives after the listener has finished is never read
Signal ==
    /\ pc \notin {"start", "exited"}
    /\ ~listenerDone
    /\ sigChan = 0
    /\ sigChan' = 1
    /\ UNCHANGED <<mvars, ctxDone, listenerDone, pvars, fvars, cvars>>

\* variant of the listener that also clears the distribution records
SignalListenerClearsRecords ==
    /\ pc \notin {"start", "exited"}
    /\ ~listenerDone
    /\ sigChan = 1
    /\ sigChan' = 0
    /\ listenerDone' = TRUE
    /\ ctxDone' = TRUE
    /\ partitionMap' = EmptyRecord
    /\ claimPartitionMap' = [p \in Partitions |-> EmptyRecord]
    /\ UNCHANGED <<mvars, fvars, messageCount, messageInterval, events, count,
                   tickReady, ticksTaken, attempts, results, topicLog,
                   maxMessages, sessions, libErr, sessCancelled, claimState,
                   claimMessage, claimMessageCount, summaryShown, marked,
                   nextOffset, received, claimExit>>

\* go func() { <-sigChan; cancel() }()
SignalListener ==
    /\ pc \notin {"start", "exited"}
    /\ ~listenerDone
    /\ sigChan = 1
    /\ sigChan' = 0
    /\ listenerDone' = TRUE
    /\ ctxDone' = TRUE
    /\ UNCHANGED <<mvars, pvars, fvars, cvars>>

\* ------------------------------------------------------- exit paths ----
\* variant of the return that reports a failure status
ReturnFromMainFailure(via) ==
    /\ pc' = "exited"
    /\ exitVia' = via
    /\ exitCode' = 1
    /\ closed' = TRUE
    /\ ctxDone' = TRUE

\* return from main: the deferred calls run (ticker.Stop, cancel, Close)
ReturnFromMain(via) ==
    /\ pc' = "exited"
    /\ exitVia' = via
    /\ exitCode' = 0
    /\ closed' = TRUE
    /\ ctxDone' = TRUE

\* log.Fatalf: os.Exit(1), deferred calls do not run
Fatalf(via) ==
    /\ pc' = "exited"
    /\ exitVia' = via
    /\ exitCode' = 1
    /\ UNCHANGED <<closed, ctxDone>>

\* --------------------------------------------------------- producer ----
\* NewProducer fails: log.Fatalf before any defer is registered
ProducerConnectFail ==
    /\ program = "producer" /\ pc = "start"
    /\ Fatalf("connect")
    /\ UNCHANGED <<program, summaryLog, sigChan, listenerDone, pvars, fvars, cvars>>

\* NewProducer succeeds; context, listener, events, record and ticker are set up
ProducerSetup ==
    /\ program = "producer" /\ pc = "start"
    /\ messageInterval > 0
    /\ events' = generateUserEvents(messageCount)
    /\ partitionMap' = EmptyRecord
    /\ count' = 0
    /\ pc' = "loop"
    /\ UNCHANGED <<program, exitCode, exitVia, closed, summaryLog, svars,
                   messageCount, messageInterval, tickReady, ticksTaken,
                   attempts, results, topicLog, cvars, fvars>>

\* time.NewTicker panics on a non-positive interval; the deferred
\* cancel and Close run while the panic unwinds, exit status 2
ProducerTickerPanic ==
    /\ program = "producer" /\ pc = "start"
    /\ messageInterval <= 0
    /\ events' = generateUserEvents(messageCount)
    /\ pc' = "exited"
    /\ exitVia' = "panic"
    /\ exitCode' = 2
    /\ closed' = TRUE
    /\ ctxDone' = TRUE
    /\ UNCHANGED <<program, summaryLog, sigChan, listenerDone, messageCount,
                   messageInterval, partitionMap, count, tickReady, ticksTaken,
                   attempts, results, topicLog, cvars, fvars>>

\* the ticker puts a tick into ticker.C; a tick is dropped when one is buffered
Tick ==
    /\ program = "producer" /\ pc \in {"loop", "sending"}
    /\ ~tickReady
    /\ tickReady' = TRUE
    /\ UNCHANGED <<mvars, svars, messageCount, messageInterval, events,
                   partitionMap, count, ticksTaken, attempts, results, topicLog, cvars, fvars>>

\* showProducerPartitionSummary(partitionMap)
showProducerPartitionSummary(m) == summaryLog' = Append(summaryLog, m)

\* case <-ctx.Done(): log "Producer stopped"; return
SelectDone ==
    /\ program = "producer" /\ pc = "loop"
    /\ ctxDone
    /\ ReturnFromMain("done")
    /\ UNCHANGED <<program, summaryLog, sigChan, listenerDone, pvars, fvars, cvars>>

\* variant of the bound test that stops one event early
LoopExhaustedEarly(c) == c >= messageCount - 1 \/ c >= Len(events)

\* if count >= messageCount || count >= len(events)
LoopExhausted(c) == c >= messageCount \/ c >= Len(events)

\* case <-ticker.C with the bound reached: summary, return
SelectTickStop ==
    /\ program = "producer" /\ pc = "loop"
    /\ tickReady
    /\ LoopExhausted(count)
    /\ tickReady' = FALSE
    /\ ticksTaken' = ticksTaken + 1
    /\ showProducerPartitionSummary(partitionMap)
    /\ ReturnFromMain("count")
    /\ UNCHANGED <<program, sigChan, listenerDone, messageCount,
                   messageInterval, events, partitionMap, count, attempts,
                   results, topicLog, cvars, fvars>>

\* case <-ticker.C otherwise: events[count] is built and SendMessage is called.
\* select picks among its ready cases at random, so ctxDone does not disable this.
SelectTickSend ==
    /\ program = "producer" /\ pc = "loop"
    /\ tickReady
    /\ ~LoopExhausted(count)
    /\ tickReady' = FALSE
    /\ ticksTaken' = ticksTaken + 1
    /\ attempts' = Append(attempts, [idx |-> events[count + 1].Index,
                                     key |-> events[count + 1].UserID,
                                     afterCancel |-> ctxDone,
                                     tick |-> ticksTaken + 1])
    /\ pc' = "sending"
    /\ UNCHANGED <<program, exitCode, exitVia, closed, summaryLog, svars,
                   messageCount, messageInterval, events, partitionMap, count,
                   results, topicLog, cvars, fvars>>

\* count++ at the end of the tick case
NextCount(c) == c + 1

\* SendMessage returns (partition, offset, nil): the partition is recorded
SendOK ==
    /\ program = "producer" /\ pc = "sending"
    /\ \E partition \in Partitions :
         /\ topicLog' = Append(topicLog, [Key |-> Last(attempts).key,
                                          Partition |-> partition])
         /\ partitionMap' = RecordAppend(partitionMap, Last(attempts).key, partition)
    /\ results' = Append(results, "ok")
    /\ count' = NextCount(count)
    /\ pc' = "loop"
    /\ UNCHANGED <<program, exitCode, exitVia, closed, summaryLog, svars,
                   messageCount, messageInterval, events, tickReady, ticksTaken,
                   attempts, cvars, fvars>>

\* variant of the error branch that leaves count alone, so the event is retried
SendFailRetry ==
    /\ program = "producer" /\ pc = "sending"
    /\ results' = Append(results, "fail")
    /\ pc' = "loop"
    /\ UNCHANGED <<program, exitCode, exitVia, closed, summaryLog, svars,
                   messageCount, messageInterval, events, partitionMap, count,
                   tickReady, ticksTaken, attempts, topicLog, cvars, fvars>>

\* SendMessage returns an error: logged, nothing recorded
SendFail ==
    /\ program = "producer" /\ pc = "sending"
    /\ results' = Append(results, "fail")
    /\ count' = NextCount(count)
    /\ pc' = "loop"
    /\ UNCHANGED <<program, exitCode, exitVia, closed, summaryLog, svars,
                   messageCount, messageInterval, events, partitionMap,
                   tickReady, ticksTaken, attempts, topicLog, cvars, fvars>>

ProducerNext ==
    \/ ProducerConnectFail
    \/ ProducerSetup
    \/ ProducerTickerPanic
    \/ Tick
    \/ SelectDone
    \/ SelectTickStop
    \/ SelectTickSend
    \/ SendOK
    \/ SendFail

\* --------------------------------------------------------- consumer ----
\* showPartitionSummary(partitionMap)
showPartitionSummary(m) == summaryLog' = Append(summaryLog, m)

\* if !summaryShown && len(partitionMap) > 0 { showPartitionSummary; summaryShown = true }
SummaryDue(p) == ~summaryShown[p] /\ RecordLen(claimPartitionMap[p]) > 0

\* the guarded call is followed by return nil in both cases, so the flag
\* that was just set is never read again
ShowSummaryOnce(p) ==
    IF SummaryDue(p)
    THEN showPartitionSummary(claimPartitionMap[p])
    ELSE UNCHANGED summaryLog

\* return nil from ConsumeClaim: the goroutine ends and its locals are gone
ClaimReturn(p, case) ==
    /\ claimState' = [claimState EXCEPT ![p] = "returned"]
    /\ claimExit' = [claimExit EXCEPT ![p] = case]
    /\ claimPartitionMap' = [claimPartitionMap EXCEPT ![p] = EmptyRecord]
    /\ claimMessageCount' = [claimMessageCount EXCEPT ![p] = 0]
    /\ claimMessage' = [claimMessage EXCEPT ![p] = NoMessage]
    /\ summaryShown' = [summaryShown EXCEPT ![p] = FALSE]
    /\ marked' = [marked EXCEPT ![p] = <<>>]

\* session.Context() is derived from ctx and is also cancelled by the library
SessionDone == sessCancelled \/ ctxDone

\* NewConsumer fails: log.Fatalf before any defer is registered
ConsumerConnectFail ==
    /\ program = "consumer" /\ pc = "start"
    /\ Fatalf("connect")
    /\ UNCHANGED <<program, summaryLog, sigChan, listenerDone, pvars, fvars, cvars>>

\* NewConsumer succeeds; context and listener are set up, Consume(ctx) is entered
ConsumerSetup ==
    /\ program = "consumer" /\ pc = "start"
    /\ pc' = "consume"
    /\ UNCHANGED <<program, exitCode, exitVia, closed, summaryLog, svars,
                   pvars, fvars, cvars>>

\* c.consumer.Consume(ctx, topics, c) returns an error without a session
LibConsumeFail ==
    /\ program = "consumer" /\ pc = "consume"
    /\ sessions < MaxSessions
    /\ sessions' = sessions + 1
    /\ libErr' = TRUE
    /\ pc' = "returned"
    /\ UNCHANGED <<program, exitCode, exitVia, closed, summaryLog, svars,
                   pvars, fvars, maxMessages, sessCancelled, claimState,
                   claimPartitionMap, claimMessageCount, claimMessage, summaryShown, marked,
                   nextOffset, received, claimExit>>

\* c.consumer.Consume starts a session: Setup, then one ConsumeClaim goroutine
\* per assigned partition, each with fresh locals (lines 70-72)
LibStartSession ==
    /\ program = "consumer" /\ pc = "consume"
    /\ sessions < MaxSessions
    /\ sessions' = sessions + 1
    /\ libErr' = FALSE
    /\ sessCancelled' = FALSE
    /\ \E A \in SUBSET Partitions :
         claimState' = [p \in Partitions |-> IF p \in A THEN "running" ELSE "none"]
    /\ claimPartitionMap' = [p \in Partitions |-> EmptyRecord]
    /\ claimMessageCount' = [p \in Partitions |-> 0]
    /\ claimMessage' = [p \in Partitions |-> NoMessage]
    /\ summaryShown' = [p \in Partitions |-> FALSE]
    /\ marked' = [p \in Partitions |-> <<>>]
    /\ claimExit' = [p \in Partitions |-> "none"]
    /\ pc' = "session"
    /\ UNCHANGED <<program, exitCode, exitVia, closed, summaryLog, svars,
                   pvars, fvars, maxMessages, nextOffset, received>>

\* the library cancels the session context (rebalance, handler exit)
LibRebalance ==
    /\ program = "consumer" /\ pc = "session"
    /\ ~sessCancelled
    /\ sessCancelled' = TRUE
    /\ UNCHANGED <<mvars, svars, pvars, fvars, maxMessages, sessions, libErr,
                   claimState, claimPartitionMap, claimMessageCount, claimMessage,
                   summaryShown, marked, nextOffset, received, claimExit>>

\* variant of the message case that leaves the record alone
ClaimReceiveNoRecord(p) ==
    /\ program = "consumer" /\ pc = "session"
    /\ claimState[p] = "running"
    /\ received < MaxMsgs
    /\ \E key \in MessageKeys :
         LET message == [Key |-> key, Partition |-> p, Offset |-> nextOffset[p]]
         IN /\ claimMessage' = [claimMessage EXCEPT ![p] = message]
            /\ claimMessageCount' = [claimMessageCount EXCEPT ![p] = @ + 1]
    /\ claimState' = [claimState EXCEPT ![p] = "marking"]
    /\ nextOffset' = [nextOffset EXCEPT ![p] = @ + 1]
    /\ received' = received + 1
    /\ UNCHANGED <<mvars, svars, pvars, fvars, maxMessages, sessions, libErr,
                   sessCancelled, claimPartitionMap, summaryShown, marked,
                   claimExit>>

\* case message := <-claim.Messages() with a message: it is counted, recorded
\* under its key and logged (lines 85-92).
\* select picks among its ready cases at random, so SessionDone does not disable this.
ClaimReceive(p) ==
    /\ program = "consumer" /\ pc = "session"
    /\ claimState[p] = "running"
    /\ received < MaxMsgs
    /\ \E key \in MessageKeys :
         LET message == [Key |-> key, Partition |-> p, Offset |-> nextOffset[p]]
         IN /\ claimMessage' = [claimMessage EXCEPT ![p] = message]
            /\ claimMessageCount' = [claimMessageCount EXCEPT ![p] = @ + 1]
            /\ claimPartitionMap' =
                 [claimPartitionMap EXCEPT
                    ![p] = RecordAppend(@, message.Key, message.Partition)]
    /\ claimState' = [claimState EXCEPT ![p] = "marking"]
    /\ nextOffset' = [nextOffset EXCEPT ![p] = @ + 1]
    /\ received' = received + 1
    /\ UNCHANGED <<mvars, svars, pvars, fvars, maxMessages, sessions, libErr,
                   sessCancelled, summaryShown, marked, claimExit>>

\* variant of the last statement of the message case that marks nothing
ClaimMarkSkipped(p) ==
    /\ program = "consumer" /\ pc = "session"
    /\ claimState[p] = "marking"
    /\ claimMessage' = [claimMessage EXCEPT ![p] = NoMessage]
    /\ claimState' = [claimState EXCEPT ![p] = "running"]
    /\ UNCHANGED <<mvars, svars, pvars, fvars, maxMessages, sessions, libErr,
                   sessCancelled, claimPartitionMap, claimMessageCount,
                   summaryShown, marked, nextOffset, received, claimExit>>

\* session.MarkMessage(message, ""), then the loop is back at the select
ClaimMark(p) ==
    /\ program = "consumer" /\ pc = "session"
    /\ claimState[p] = "marking"
    /\ marked' = [marked EXCEPT ![p] = Append(@, claimMessage[p].Offset)]
    /\ claimMessage' = [claimMessage EXCEPT ![p] = NoMessage]
    /\ claimState' = [claimState EXCEPT ![p] = "running"]
    /\ UNCHANGED <<mvars, svars, pvars, fvars, maxMessages, sessions, libErr,
                   sessCancelled, claimPartitionMap, claimMessageCount,
                   summaryShown, nextOffset, received, claimExit>>

\* case message := <-claim.Messages() with message == nil (channel closed)
ClaimStreamEnd(p) ==
    /\ program = "consumer" /\ pc = "session"
    /\ claimState[p] = "running"
    /\ ShowSummaryOnce(p)
    /\ ClaimReturn(p, "nil")
    /\ UNCHANGED <<program, pc, exitCode, exitVia, closed, svars, pvars, fvars,
                   maxMessages, sessions, libErr, sessCancelled, nextOffset,
                   received>>

\* case <-session.Context().Done()
ClaimCancel(p) ==
    /\ program = "consumer" /\ pc = "session"
    /\ claimState[p] = "running"
    /\ SessionDone
    /\ ShowSummaryOnce(p)
    /\ ClaimReturn(p, "done")
    /\ UNCHANGED <<program, pc, exitCode, exitVia, closed, svars, pvars, fvars,
                   maxMessages, sessions, libErr, sessCancelled, nextOffset,
                   received>>

\* the session is over and every ConsumeClaim has returned: Cleanup, the
\* session and its claims are released, and the library's Consume returns nil
\* or an error
LibSessionEnd ==
    /\ program = "consumer" /\ pc = "session"
    /\ SessionDone
    /\ \A p \in Partitions : claimState[p] \notin {"running", "marking"}
    /\ libErr' \in BOOLEAN
    /\ claimState' = [p \in Partitions |-> "none"]
    /\ sessCancelled' = FALSE
    /\ pc' = "returned"
    /\ UNCHANGED <<program, exitCode, exitVia, closed, summaryLog, svars,
                   pvars, fvars, maxMessages, sessions, claimPartitionMap,
                   claimMessageCount, claimMessage, summaryShown, marked, nextOffset,
                   received, claimExit>>

\* variant that returns to the caller after every session
ConsumeOutcomeNoLoop(err, ctxErr) == IF err THEN "wrapped" ELSE "ctx"

\* variant that drops the library's error and keeps looping
ConsumeOutcomeIgnoreErr(err, ctxErr) == IF ctxErr THEN "ctx" ELSE "loop"

\* what Consumer.Consume does with the library's result (lines 48-54):
\* "wrapped" and "ctx" are returned errors, "loop" is the next iteration
ConsumeOutcome(err, ctxErr) ==
    IF err THEN "wrapped"
    ELSE IF ctxErr THEN "ctx"
    ELSE "loop"

\* if err := consumer.Consume(ctx); err != nil { log.Fatalf } ; log; return
MainAfterConsume(outcome) ==
    IF outcome # "nil" THEN Fatalf(outcome) ELSE ReturnFromMain("normal")

\* Consume returns fmt.Errorf("error from consumer: %w", err) to main
ConsumeReturnErr ==
    /\ program = "consumer" /\ pc = "returned"
    /\ ConsumeOutcome(libErr, ctxDone) = "wrapped"
    /\ MainAfterConsume("wrapped")
    /\ UNCHANGED <<program, summaryLog, sigChan, listenerDone, pvars, fvars, cvars>>

\* Consume returns ctx.Err() to main
ConsumeReturnCtx ==
    /\ program = "consumer" /\ pc = "returned"
    /\ ConsumeOutcome(libErr, ctxDone) = "ctx"
    /\ MainAfterConsume("ctx")
    /\ UNCHANGED <<program, summaryLog, sigChan, listenerDone, pvars, fvars, cvars>>

\* neither error: the for loop calls the library's Consume again
ConsumeLoop ==
    /\ program = "consumer" /\ pc = "returned"
    /\ ConsumeOutcome(libErr, ctxDone) = "loop"
    /\ pc' = "consume"
    /\ UNCHANGED <<program, exitCode, exitVia, closed, summaryLog, svars,
                   pvars, fvars, cvars>>

ConsumerNext ==
    \/ ConsumerConnectFail
    \/ ConsumerSetup
    \/ LibConsumeFail
    \/ LibStartSession
    \/ LibRebalance
    \/ \E p \in Partitions : ClaimReceive(p)
    \/ \E p \in Partitions : ClaimMark(p)
    \/ \E p \in Partitions : ClaimStreamEnd(p)
    \/ \E p \in Partitions : ClaimCancel(p)
    \/ LibSessionEnd
    \/ ConsumeReturnErr
    \/ ConsumeReturnCtx
    \/ ConsumeLoop

Next ==
    \/ Signal
    \/ SignalListener
    \/ ProducerNext
    \/ ConsumerNext

\* ------------------------------------- functions exercised on their own ----
\* every variable of main stays as it is before main's first statement
MainUntouched == UNCHANGED <<exitCode, exitVia, closed, summaryLog, svars,
                             pvars, cvars>>

\* the records a run can hand to the summary routine
Records ==
    LET Lists == UNION {[1..n -> Partitions] : n \in 0..MaxMsgs}
    IN {m \in [Users -> Lists] : RecordTotal(m) <= MaxMsgs}

\* the strings an environment variable can hold
EnvChars == {"-", "0", "1", "x"}
EnvStrings == UNION {[1..n -> EnvChars] : n \in 0..MaxEnvLen}
EnvKeys == {"MESSAGE_COUNT", "MESSAGE_INTERVAL_MS", "MAX_MESSAGES"}

InitFn ==
    /\ program \in {"generateUserEvents", "showProducerPartitionSummary",
                    "showPartitionSummary", "getEnvAsInt"}
    /\ MainStart
    /\ messageCount = 0
    /\ messageInterval = 500
    /\ maxMessages = 0
    /\ genCount \in IF program = "generateUserEvents" THEN (-1)..MaxGen ELSE {0}
    /\ genI = 0
    /\ genEvents = <<>>
    /\ genCalls = <<>>
    /\ now = 0
    /\ sumRecord \in IF program \in {"showProducerPartitionSummary",
                                     "showPartitionSummary"}
                     THEN Records ELSE {EmptyRecord}
    /\ sumOut = <<>>
    /\ envKey \in IF program = "getEnvAsInt" THEN EnvKeys ELSE {"MESSAGE_COUNT"}
    /\ envSet \in IF program = "getEnvAsInt" THEN BOOLEAN ELSE {FALSE}
    /\ envValue \in IF program = "getEnvAsInt" /\ envSet THEN EnvStrings ELSE {<<>>}
    /\ envResult = 0

\* one iteration of the loop of generateUserEvents; time.Now() reads a clock
\* that has not gone back since it was last read
GenStep ==
    /\ program = "generateUserEvents" /\ pc = "start"
    /\ Len(genCalls) < 2
    /\ genI < genCount
    /\ \E t \in now..Min(now + 1, MaxClock) :
         /\ now' = t
         /\ genEvents' = Append(genEvents, GenEvent(genI, t))
    /\ genI' = genI + 1
    /\ UNCHANGED <<program, pc, genCount, genCalls, sumvars, envvars>>
    /\ MainUntouched

\* return events; the same count is then passed to a second call
GenReturn ==
    /\ program = "generateUserEvents" /\ pc = "start"
    /\ Len(genCalls) < 2
    /\ genI >= genCount
    /\ genCalls' = Append(genCalls, genEvents)
    /\ genEvents' = <<>>
    /\ genI' = 0
    /\ pc' = IF Len(genCalls) = 1 THEN "done" ELSE pc
    /\ UNCHANGED <<program, genCount, now, sumvars, envvars>>
    /\ MainUntouched

\* the orders in which a range over a map with key set S can visit it
Perms(S) ==
    {f \in [1..Cardinality(S) -> S] : \A i, j \in 1..Cardinality(S) :
                                        f[i] = f[j] => i = j}

\* keys present in the map
RecordKeys(m) == {u \in Users : m[u] # <<>>}

\* uniquePartitions: the set of the partitions listed for one user
UniquePartitions(list) == {list[i] : i \in 1..Len(list)}

\* the variant of the log line: the producer's routine says "went to", the
\* consumer's "came from"
SummaryVerb(fn) ==
    IF fn = "showProducerPartitionSummary" THEN "went to" ELSE "came from"

\* the User lines one call logs when the range over partitionMap visits the
\* keys in keyOrder and the range over uniquePartitions of key k visits in
\* partOrder[k]
SummaryLines(fn, m, keyOrder, partOrder) ==
    [i \in 1..Len(keyOrder) |->
        [UserID |-> keyOrder[i],
         Messages |-> Len(m[keyOrder[i]]),
         Verb |-> SummaryVerb(fn),
         Partitions |-> partOrder[keyOrder[i]]]]

\* one call of the summary routine on sumRecord; the iteration order of both
\* maps is whatever the runtime picks for this call
SummaryCall ==
    /\ program \in {"showProducerPartitionSummary", "showPartitionSummary"}
    /\ pc = "start"
    /\ \E keyOrder \in Perms(RecordKeys(sumRecord)) :
         \E partOrder \in [RecordKeys(sumRecord) ->
                             UNION {Perms(UniquePartitions(sumRecord[k])) :
                                      k \in RecordKeys(sumRecord)}] :
           /\ \A k \in RecordKeys(sumRecord) :
                partOrder[k] \in Perms(UniquePartitions(sumRecord[k]))
           /\ sumOut' = Append(sumOut,
                               SummaryLines(program, sumRecord, keyOrder, partOrder))
    /\ pc' = IF Len(sumOut) = 1 THEN "done" ELSE pc
    /\ UNCHANGED <<program, sumRecord, gvars, envvars>>
    /\ MainUntouched

\* value of one decimal digit
DigitValue(c) == IF c = "0" THEN 0 ELSE 1
IsDigit(c) == c \in {"0", "1"}

RECURSIVE DigitsValue(_, _)
DigitsValue(str, acc) ==
    IF str = <<>> THEN acc
    ELSE DigitsValue(Tail(str), acc * 10 + DigitValue(Head(str)))

\* strconv.Atoi: an optional sign, then one or more decimal digits
Atoi(str) ==
    LET signed == str # <<>> /\ Head(str) \in {"-", "+"}
        digits == IF signed THEN Tail(str) ELSE str
    IN IF digits = <<>> \/ \E i \in 1..Len(digits) : ~IsDigit(digits[i])
       THEN [err |-> TRUE, val |-> 0]
       ELSE [err |-> FALSE,
             val |-> IF signed /\ Head(str) = "-"
                     THEN 0 - DigitsValue(digits, 0)
                     ELSE DigitsValue(digits, 0)]

\* os.Getenv: the empty string for a variable that is not set
Getenv(set, value) == IF set THEN value ELSE <<>>

\* getEnvAsInt(key, defaultValue)
getEnvAsInt(value, defaultValue) ==
    IF value # <<>> /\ ~Atoi(value).err THEN Atoi(value).val ELSE defaultValue

\* the defaults main passes for each variable
DefaultMessageCount == 20
DefaultMessageInterval == 500
DefaultMaxMessages == 0
DefaultFor(key) ==
    IF key = "MESSAGE_COUNT" THEN DefaultMessageCount
    ELSE IF key = "MESSAGE_INTERVAL_MS" THEN DefaultMessageInterval
    ELSE DefaultMaxMessages

\* main reads one integer setting
GetEnvCall ==
    /\ program = "getEnvAsInt" /\ pc = "start"
    /\ envResult' = getEnvAsInt(Getenv(envSet, envValue), DefaultFor(envKey))
    /\ pc' = "done"
    /\ UNCHANGED <<program, envKey, envSet, envValue, gvars, sumvars>>
    /\ MainUntouched

NextFn ==
    \/ GenStep
    \/ GenReturn
    \/ SummaryCall
    \/ GetEnvCall

SpecFn == InitFn /\ [][NextFn]_vars

\* -------------------------------------------- the producer, scheduled ----
ProducerInit == Init /\ program = "producer"

ProducerSteps ==
    \/ Signal
    \/ SignalListener
    \/ ProducerNext

\* the ticker keeps firing, a ready select case is taken, and every
\* SendMessage call returns
ProducerFairness ==
    /\ WF_vars(Tick)
    /\ WF_vars(SelectTickStop)
    /\ WF_vars(SelectTickSend)
    /\ WF_vars(SendOK \/ SendFail)

LiveSpec == ProducerInit /\ [][ProducerSteps]_vars /\ ProducerFairness

\* ============================================================ claims ====

\* C1: whenever the cancellation branch stops the producer loop before the
\* message count is exhausted, the summary of the sends recorded so far has
\* been printed before the exit.
CancelPrintsPartialSummary ==
    (program = "producer" /\ pc = "exited" /\ exitVia = "done"
        /\ ~LoopExhausted(count))
    => (Len(summaryLog) = 1 /\ summaryLog[1] = partitionMap)

\* C2: once the cancellation context is done the producer loop starts no new
\* send: no send attempt is issued in a state where ctx is done.
NoSendAfterCancel ==
    \A i \in 1..Len(attempts) : ~attempts[i].afterCancel

\* C3: with MAX_MESSAGES = m > 0 the consumer never receives, records or
\* acknowledges more than m messages, and no printed summary totals more than m.
MaxMessagesBound ==
    (program = "consumer" /\ maxMessages > 0)
    => /\ received <= maxMessages
       /\ \A p \in Partitions : Len(marked[p]) <= maxMessages
       /\ \A i \in 1..Len(summaryLog) : RecordTotal(summaryLog[i]) <= maxMessages

\* C4: over one run of the consumer the summary routine is invoked at most once.
SingleSummary ==
    program = "consumer" => Len(summaryLog) <= 1

\* C5: a run that ends through the cancellation branch (producer: case
\* <-ctx.Done(); consumer: Consume returning on a done context) exits with
\* status 0.
CleanExitOnCancellation ==
    (pc = "exited" /\ exitVia \in {"done", "ctx"}) => exitCode = 0

\* C6: once the client session was established, Close() has been executed
\* whenever the process has exited.
CloseOnEveryExitPath ==
    (pc = "exited" /\ exitVia # "connect") => closed

\* C7: a failed send keeps the loop running, appends nothing to the record,
\* counts the attempt, and every new attempt is for the event whose index is
\* the number of attempts made before it (no retry, next is i+1).
SendFailureNonFatal ==
    [][ /\ (pc = "sending" /\ Len(results') = Len(results) + 1
              /\ Last(results') = "fail")
          => /\ pc' = "loop"
             /\ exitCode' = -1
             /\ partitionMap' = partitionMap
             /\ count' = count + 1
             /\ attempts' = attempts
        /\ (Len(attempts') = Len(attempts) + 1)
          => /\ Last(attempts').idx = Len(attempts)
             /\ Last(attempts').idx = count
      ]_vars

\* C7 witness: a send failed and the following event was attempted after it.
SendFailureWitness ==
    \E i \in 1..Len(results) :
        /\ results[i] = "fail"
        /\ Len(attempts) > i
        /\ attempts[i + 1].idx = i

\* C8 as stated: one attempt per tick, events attempted in index order once
\* each, never more than MESSAGE_COUNT attempts (none when MESSAGE_COUNT <= 0),
\* and the normal-completion summary comes after exactly
\* min(MESSAGE_COUNT, number of generated events) attempts.
SendLoopBoundOriginal ==
    program = "producer" =>
      /\ Len(attempts) <= ticksTaken
      /\ \A i \in 1..Len(attempts) : attempts[i].idx = i - 1
      /\ \A i, j \in 1..Len(attempts) : i # j => attempts[i].tick # attempts[j].tick
      /\ IF messageCount <= 0 THEN Len(attempts) = 0
         ELSE Len(attempts) <= messageCount
      /\ exitVia = "count"
           => /\ Len(attempts) = Min(messageCount, Len(events))
              /\ Len(results) = Len(attempts)

\* C8 amended: as above, with the normal-completion summary after exactly as
\* many attempts as events were generated, that is max(MESSAGE_COUNT, 0).
SendLoopBound ==
    program = "producer" =>
      /\ Len(attempts) <= ticksTaken
      /\ \A i \in 1..Len(attempts) : attempts[i].idx = i - 1
      /\ \A i, j \in 1..Len(attempts) : i # j => attempts[i].tick # attempts[j].tick
      /\ IF messageCount <= 0 THEN Len(attempts) = 0
         ELSE Len(attempts) <= messageCount
      /\ exitVia = "count"
           => /\ Len(attempts) = Len(events)
              /\ Len(attempts) = Max(messageCount, 0)
              /\ Len(results) = Len(attempts)
              /\ Len(summaryLog) = 1

\* C8 witness: a run completed normally after several attempts.
SendLoopBoundWitness ==
    /\ program = "producer" /\ pc = "exited" /\ exitVia = "count"
    /\ Len(attempts) >= 2
    /\ Len(attempts) = messageCount
    /\ Len(summaryLog) = 1

ConsumeErrorIsFatal ==
    [][ /\ (pc = "returned" /\ libErr /\ pc' # pc)
             => /\ pc' = "exited"
                /\ exitVia' = "wrapped"
                /\ exitCode' > 0
                /\ sessions' = sessions
        /\ (pc = "returned" /\ pc' = "consume") => (~libErr /\ ~ctxDone)
        /\ sessions' > sessions => pc = "consume"
      ]_vars

\* C10 witness: the library returned an error and the process left through
\* the fatal path with the wrapped error.
ConsumeErrorWitness ==
    /\ program = "consumer" /\ pc = "exited"
    /\ exitVia = "wrapped" /\ libErr /\ exitCode = 1
    /\ sessions >= 1

\* C11: for every N >= 0 a call generateUserEvents(N) returns exactly N events
\* and event i carries the i mod 3 entry of (user-123, user-456, user-789) and
\* the i mod 6 entry of (page_view, purchase, login, logout, search,
\* add_to_cart); the events main builds from MESSAGE_COUNT are the same.
GeneratorContract ==
    (program = "generateUserEvents" /\ genCount >= 0) =>
      \A c \in 1..Len(genCalls) :
        /\ Len(genCalls[c]) = genCount
        /\ Len(generateUserEvents(genCount)) = genCount
        /\ \A i \in 0..(genCount - 1) :
             /\ genCalls[c][i + 1].UserID =
                  <<"user-123", "user-456", "user-789">>[(i % 3) + 1]
             /\ genCalls[c][i + 1].EventType =
                  <<"page_view", "purchase", "login", "logout", "search",
                    "add_to_cart">>[(i % 6) + 1]
             /\ generateUserEvents(genCount)[i + 1].UserID = genCalls[c][i + 1].UserID
             /\ generateUserEvents(genCount)[i + 1].EventType =
                  genCalls[c][i + 1].EventType

\* C11 witness: a call returned for a count that wraps both lists.
GeneratorWitness ==
    /\ program = "generateUserEvents"
    /\ Len(genCalls) >= 1
    /\ genCount >= 7
    /\ Len(genCalls[1]) = genCount

\* C12: two calls with the same N return identical sequences, timestamps
\* included, and inside one sequence the timestamp grows by one fixed step
\* (one second) from each event to the next.
GeneratorDeterministic ==
    (program = "generateUserEvents" /\ Len(genCalls) = 2) =>
      /\ genCalls[1] = genCalls[2]
      /\ \A c \in 1..2 : \A j \in 1..(Len(genCalls[c]) - 1) :
           genCalls[c][j + 1].Timestamp - genCalls[c][j].Timestamp = 1

\* C13: two calls of the summary routine on the same, unmodified record log
\* the same lines in the same order, each with the same partition list.
SummaryIdempotent ==
    (program \in {"showProducerPartitionSummary", "showPartitionSummary"}
        /\ Len(sumOut) = 2)
    => sumOut[1] = sumOut[2]

\* C17: when MESSAGE_COUNT is unset, empty or not parseable as an integer the
\* producer uses the documented default of 10 messages, and for
\* MESSAGE_INTERVAL_MS the documented default of 1000 ms.
DocumentedDefaults ==
    (program = "getEnvAsInt" /\ pc = "done"
        /\ (~envSet \/ envValue = <<>> \/ Atoi(envValue).err))
    => /\ envKey = "MESSAGE_COUNT" => envResult = 10
       /\ envKey = "MESSAGE_INTERVAL_MS" => envResult = 1000

\* the cluster has routed every message of one key to one partition so far
ClusterStable ==
    \A i, j \in 1..Len(topicLog) :
        topicLog[i].Key = topicLog[j].Key
        => topicLog[i].Partition = topicLog[j].Partition

\* partitions listed for a key in a record
RecordedPartitions(m, k) == {m[k][i] : i \in 1..Len(m[k])}

\* C14: while the cluster routes each key to one partition, the partitions
\* recorded for any key in the producer's record form a set of at most one
\* element, and a printed summary lists exactly one partition for every key
\* that has a recorded send.
PartitionStability ==
    (program = "producer" /\ ClusterStable) =>
      /\ \A k \in Users : Cardinality(RecordedPartitions(partitionMap, k)) <= 1
      /\ \A n \in 1..Len(summaryLog) : \A k \in Users :
           summaryLog[n][k] # <<>>
           => Cardinality(RecordedPartitions(summaryLog[n], k)) = 1

\* C14 witness: a key was sent twice to a stable cluster and the summary was printed.
PartitionStabilityWitness ==
    /\ program = "producer" /\ ClusterStable
    /\ exitVia = "count"
    /\ Len(summaryLog) = 1
    /\ Len(summaryLog[1]["user-123"]) >= 2

\* completed sends of key k that succeeded
OkSends(k) ==
    {i \in 1..Len(results) : results[i] = "ok" /\ attempts[i].key = k}
AllOkSends == {i \in 1..Len(results) : results[i] = "ok"}

\* C15 as stated: with MESSAGE_COUNT=5 and no send failure the producer sends
\* 5 messages and the summary reports 5 messages for user-123; in general the
\* summary's count for a key is the number of successful sends with that key
\* and the counts sum to the number of successful sends.
SummaryCountsOriginal ==
    (program = "producer" /\ exitVia = "count") =>
      /\ Len(summaryLog) = 1
      /\ \A k \in Users : Len(summaryLog[1][k]) = Cardinality(OkSends(k))
      /\ RecordTotal(summaryLog[1]) = Cardinality(AllOkSends)
      /\ (messageCount = 5 /\ Cardinality(AllOkSends) = Len(results))
           => /\ Len(attempts) = 5
              /\ Len(summaryLog[1]["user-123"]) = 5
              /\ ClusterStable
                   => Cardinality(RecordedPartitions(summaryLog[1], "user-123")) = 1

\* C15 amended: with MESSAGE_COUNT=5 and no send failure the producer sends 5
\* messages and the summary reports 2 messages for user-123, 2 for user-456
\* and 1 for user-789, each key on a single partition when the cluster routes
\* it stably; the general part is as stated.
SummaryCounts ==
    (program = "producer" /\ exitVia = "count") =>
      /\ Len(summaryLog) = 1
      /\ \A k \in Users : Len(summaryLog[1][k]) = Cardinality(OkSends(k))
      /\ RecordTotal(summaryLog[1]) = Cardinality(AllOkSends)
      /\ (messageCount = 5 /\ Cardinality(AllOkSends) = Len(results))
           => /\ Len(attempts) = 5
              /\ Len(summaryLog[1]["user-123"]) = 2
              /\ Len(summaryLog[1]["user-456"]) = 2
              /\ Len(summaryLog[1]["user-789"]) = 1
              /\ ClusterStable
                   => \A k \in Users :
                        Cardinality(RecordedPartitions(summaryLog[1], k)) = 1

\* C15 witness: a run with MESSAGE_COUNT=5 completed without a send failure.
SummaryCountsWitness ==
    /\ program = "producer" /\ exitVia = "count"
    /\ messageCount = 5
    /\ Len(results) = 5
    /\ Cardinality(AllOkSends) = 5
    /\ ClusterStable
    /\ Len(summaryLog) = 1

\* C16: with MESSAGE_COUNT=0 (a valid tick interval and an established
\* session) no send is ever issued, a printed summary has no per-user line,
\* the run leaves through a return of main with status 0, and without a
\* cancellation that return is the one of the first tick, after the summary.
ZeroCountRun ==
    (program = "producer" /\ messageCount = 0 /\ messageInterval > 0) =>
      /\ attempts = <<>>
      /\ topicLog = <<>>
      /\ pc # "sending"
      /\ ticksTaken <= 1
      /\ \A n \in 1..Len(summaryLog) : RecordKeys(summaryLog[n]) = {}
      /\ (pc = "exited" /\ exitVia # "connect")
           => /\ exitCode = 0
              /\ exitVia \in {"count", "done"}
              /\ ~listenerDone => (exitVia = "count" /\ Len(summaryLog) = 1)

\* C16 witness: a run with MESSAGE_COUNT=0 ended on its first tick.
ZeroCountWitness ==
    /\ program = "producer" /\ messageCount = 0 /\ messageInterval > 0
    /\ pc = "exited" /\ exitVia = "count"
    /\ exitCode = 0
    /\ summaryLog = <<EmptyRecord>>

\* C18: when no signal ever arrives the producer loop, once entered, ends
\* through the bound test of a tick, having made one attempt per generated
\* event, each of them completed, and having printed the summary exactly
\* once, on the tick that follows the one of the last attempt.
ProducerTerminates ==
    ([](sigChan = 0)) =>
      ((program = "producer" /\ pc = "loop")
         ~> (/\ pc = "exited"
             /\ exitVia = "count"
             /\ Len(summaryLog) = 1
             /\ Len(attempts) = Len(events)
             /\ Len(results) = Len(attempts)
             /\ ticksTaken = Len(attempts) + 1
             /\ attempts # <<>> => Last(attempts).tick = ticksTaken - 1))

\* C18 witness: a run without any signal completed after at least two attempts.
ProducerTerminatesWitness ==
    /\ program = "producer"
    /\ sigChan = 0 /\ ~listenerDone
    /\ pc = "exited" /\ exitVia = "count"
    /\ Len(attempts) >= 2
    /\ Len(summaryLog) = 1

\* a claim's ConsumeClaim is inside its loop
ClaimLive(p) == claimState[p] \in {"running", "marking"}

\* what holds of a live claim between its steps: everything received is
\* recorded, everything marked was received and recorded, nothing is marked
\* twice, and only the message in hand is recorded but not yet marked
RecordedBeforeMarked(p) ==
    /\ claimMessageCount[p] = RecordTotal(claimPartitionMap[p])
    /\ Len(marked[p]) + (IF claimState[p] = "marking" THEN 1 ELSE 0)
         = claimMessageCount[p]
    /\ \A i \in 1..Len(marked[p]) : marked[p][i] >= 0 /\ marked[p][i] < nextOffset[p]
    /\ \A i, j \in 1..Len(marked[p]) : i # j => marked[p][i] # marked[p][j]
    /\ claimState[p] = "marking"
         => /\ claimMessage[p].Offset < nextOffset[p]
            /\ \A i \in 1..Len(marked[p]) : marked[p][i] # claimMessage[p].Offset
            /\ claimPartitionMap[p][claimMessage[p].Key] # <<>>
            /\ Last(claimPartitionMap[p][claimMessage[p].Key])
                 = claimMessage[p].Partition
    /\ claimState[p] = "running" => claimMessage[p] = NoMessage

\* C19: every message received in ConsumeClaim is recorded under its key
\* before it is marked, is marked exactly once, and nothing is marked that
\* was not received and recorded: between the recording step and the marking
\* step the message in hand is in the record and not among the marked
\* offsets, and at the select the marked offsets are exactly the recorded
\* messages.
RecordThenAcknowledge ==
    program = "consumer"
    => \A p \in Partitions : ClaimLive(p) => RecordedBeforeMarked(p)

\* C19 witness: a claim has received two messages, marked the first and holds
\* the second, recorded and not yet marked.
RecordThenAcknowledgeWitness ==
    \E p \in Partitions :
        /\ claimState[p] = "marking"
        /\ claimMessageCount[p] = 2
        /\ Len(marked[p]) = 1

\* C20: once the session context is done no further message is taken from a
\* claim's stream, and the next step of a claim at its select is the
\* cancellation branch.
NoReceiveAfterSessionDone ==
    [][ (program = "consumer" /\ pc = "session" /\ SessionDone) =>
          /\ received' = received
          /\ \A p \in Partitions :
               (claimState[p] = "running" /\ claimState'[p] # "running")
               => claimExit'[p] = "done"
      ]_vars

\* C21: the signal listener only requests cancellation and leaves every
\* distribution record alone; the producer's record is written and printed
\* only by steps of main's loop, and a claim's record is written and printed
\* only by steps of the ConsumeClaim invocation that owns it, one goroutine
\* per step.
SingleWriter ==
    [][ /\ listenerDone' # listenerDone
             => /\ ctxDone'
                /\ <<mvars, pvars, cvars>>' = <<mvars, pvars, cvars>>
        /\ partitionMap' # partitionMap
             => /\ program = "producer" /\ pc = "sending"
                /\ listenerDone' = listenerDone
        /\ \A p \in Partitions :
             claimPartitionMap'[p] # claimPartitionMap[p]
             => /\ program = "consumer" /\ ClaimLive(p)
                /\ listenerDone' = listenerDone
                /\ \A q \in Partitions \ {p} :
                     /\ claimPartitionMap'[q] = claimPartitionMap[q]
                     /\ claimState'[q] = claimState[q]
        /\ summaryLog' # summaryLog
             => /\ listenerDone' = listenerDone
                /\ Len(summaryLog') = Len(summaryLog) + 1
                /\ IF program = "producer"
                   THEN /\ pc = "loop"
                        /\ Last(summaryLog') = partitionMap
                   ELSE \E p \in Partitions :
                          /\ claimState[p] = "running"
                          /\ claimState'[p] = "returned"
                          /\ Last(summaryLog') = claimPartitionMap[p]
                          /\ \A q \in Partitions \ {p} :
                               claimState'[q] = claimState[q]
      ]_vars

\* C21 witness: the listener has run while two claims hold non-empty records.
SingleWriterWitness ==
    /\ program = "consumer"
    /\ listenerDone
    /\ \E p, q \in Partitions :
         /\ p # q
         /\ ClaimLive(p) /\ ClaimLive(q)
         /\ RecordLen(claimPartitionMap[p]) > 0
         /\ RecordLen(claimPartitionMap[q]) > 0

\* C22: a ConsumeClaim invocation that has received nothing holds an empty
\* record and an unset summary guard, the record of the claim of partition p
\* holds only p under every key, and every summary the consumer has printed
\* lists at most one partition for a key.
RecordIsPerClaim ==
    program = "consumer"
    => /\ \A p \in Partitions :
            /\ (ClaimLive(p) /\ claimMessageCount[p] = 0)
                 => (claimPartitionMap[p] = EmptyRecord /\ ~summaryShown[p])
            /\ \A k \in Users : RecordedPartitions(claimPartitionMap[p], k) \subseteq {p}
       /\ \A n \in 1..Len(summaryLog) : \A k \in Users :
            Cardinality(RecordedPartitions(summaryLog[n], k)) <= 1

\* C22 witness: the cluster delivered one key on two partitions, and two
\* summaries were printed that each list a single partition for that key.
RecordIsPerClaimWitness ==
    /\ program = "consumer"
    /\ \E n, m \in 1..Len(summaryLog) : \E k \in Users :
         /\ summaryLog[n][k] # <<>>
         /\ summaryLog[m][k] # <<>>
         /\ RecordedPartitions(summaryLog[n], k) # RecordedPartitions(summaryLog[m], k)

\* messages the invocation of partition p has taken from its stream: the
\* stream offsets from the first one it marked up to the next one to deliver
ReceivedByClaim(p) ==
    IF marked[p] = <<>> THEN 0 ELSE nextOffset[p] - marked[p][1]

\* C23: whenever a ConsumeClaim invocation arrives at the top of its loop,
\* messageCount equals the sum of the lengths of the recorded lists and the
\* number of messages it has marked, and a summary it prints has as its
\* total the number of messages the claim received.
CountingInvariant ==
    [][ \A p \in Partitions :
          /\ (claimState[p] # "running" /\ claimState'[p] = "running")
               => /\ claimMessageCount'[p] = RecordTotal(claimPartitionMap'[p])
                  /\ claimMessageCount'[p] = Len(marked'[p])
                  /\ claimMessageCount'[p] = ReceivedByClaim(p)'
          /\ (claimState[p] = "running" /\ claimState'[p] = "returned"
                /\ summaryLog' # summaryLog)
               => /\ RecordTotal(Last(summaryLog')) = claimMessageCount[p]
                  /\ RecordTotal(Last(summaryLog')) = Len(marked[p])
                  /\ RecordTotal(Last(summaryLog')) = ReceivedByClaim(p)
      ]_vars

\* C23 witness: a claim that received two messages has printed its summary.
CountingInvariantWitness ==
    /\ program = "consumer"
    /\ \E n \in 1..Len(summaryLog) : RecordTotal(summaryLog[n]) = 2

Spec == Init /\ [][Next]_vars
====
